---- MODULE Spec2Model ----
(***************************************************************************)
(* Progressive image delivery of the media portfolio.                      *)
(*                                                                         *)
(*   SpecLazy : one LazyImage instance (client/src/components/             *)
(*              lazy-image.tsx) from mount to unmount, together with the   *)
(*              browser objects it creates: the IntersectionObserver, the  *)
(*              <img> elements it renders, the off-DOM probe Image and the *)
(*              immediate-mode timer.                                      *)
(*   SpecGrid : one VirtualizedGrid instance (client/src/components/       *)
(*              virtualized-grid.tsx): pagination state, the loadMore      *)
(*              continuation and changes of the items prop.                *)
(*   SpecZoom : one ImageZoomModal (client/src/components/                 *)
(*              image-zoom-modal.tsx) under a parent that mounts, opens,   *)
(*              closes and unmounts it, with the full <img> it renders and *)
(*              its document keydown listener.                             *)
(*   SpecThumb: the ThumbnailService singleton (server/thumbnailService.ts) *)
(*              with the thumbnail directory it writes to: single-variant  *)
(*              generation from a file, a buffer or a URL, the three-tier  *)
(*              generateMultipleThumbnails, called concurrently.           *)
(*   SpecDelete: the same service generating from local sources while      *)
(*              callers delete thumbnails with deleteThumbnail.            *)
(*   SpecMedia: the media records of MemStorage (server/storage.ts) behind *)
(*              POST /api/media and DELETE /api/media/:id                  *)
(*              (server/routes.ts), the records naming thumbnails that the *)
(*              service generated.                                         *)
(*                                                                         *)
(* An event handler, the re-render it causes and the effects of that       *)
(* render are one step: React flushes them before the next event is        *)
(* delivered.  A state setter of an unmounted instance changes nothing.    *)
(***************************************************************************)
EXTENDS Integers, Sequences, FiniteSets, TLC

\* ------------------------------------------------------------------ bounds
\* Granularity of the LazyImage clock, in ms.
TickMs == 500
\* Granularity of the VirtualizedGrid clock, in ms.
GridTickMs == 50
\* Longest items list handed to the grid.
MaxItems == 30
\* Number of times the items prop changes identity.
MaxVersions == 2

\* Pointer positions of mouse events: <<c, MaxCoord - c>> for c in 0..MaxCoord.
MaxCoord == 1
\* Pan offsets explored: -MaxPan..MaxPan on both axes.
MaxPan == 1
\* Number of times the parent opens the modal.
MaxOpens == 2
\* Number of drags started.
MaxDrags == 1
\* Number of zoom-in / zoom-out requests.
MaxZoomOps == 4
\* single-variant generation calls made in a behaviour (one
\* generateMultipleThumbnails call makes three)
MaxTasks == 3
\* deleteThumbnail calls made in a behaviour
MaxDeletes == 2
\* media records created in a behaviour
MaxMedia == 2

\* ------------------------------------------------------- program constants
ImmediateDelay == 1500
ITEMS_PER_PAGE == 12
LoadMoreDelay == 100

Min(a, b) == IF a < b THEN a ELSE b
Max(a, b) == IF a > b THEN a ELSE b

VARIABLES
  \* LazyImage props
  thumbnailUrl,              \* TRUE iff a thumbnail URL was passed
  loadFullImageImmediately,
  \* LazyImage state (useState)
  imageLoaded, imageInView, imageError, thumbnailLoaded, shouldLoadFullImage,
  \* LazyImage environment
  mounted,                   \* the instance is mounted
  observing,                 \* the observer observes the container
  thumbEl, fullEl, directEl, \* the three <img> elements: none/fetching/loaded/error
  probes,                    \* off-DOM probe Images whose load/error is pending
  timers,                    \* pending immediate-mode timers, remaining ms each
  \* LazyImage observations
  net,                       \* requests issued so far, per kind
  onLoadCalls, onErrorCalls, \* invocations of the caller's onLoad / onError
  lastEvent,                 \* the event handled by the last step
  hovered,                   \* a pointer-enter has been delivered
  sinceThumb,                \* ms since handleThumbnailLoad ran, -1 before
  \* VirtualizedGrid props and state
  items,                     \* [ver, list]: identity and content of the items prop
  visibleItems, loading,
  loadDelay,                 \* remaining ms of the loadMore delay, -1 when none
  \* VirtualizedGrid observations
  completedLoads,            \* loadMore continuations completed since mount
  acceptedSinceChange,       \* a loadMore was accepted on the current list
  gridEvent

lazyState == <<imageLoaded, imageInView, imageError, thumbnailLoaded, shouldLoadFullImage>>
lazyProps == <<thumbnailUrl, loadFullImageImmediately>>
lazyEnv == <<mounted, observing, thumbEl, fullEl, directEl, probes, timers>>
lazyObs == <<net, onLoadCalls, onErrorCalls, lastEvent, hovered, sinceThumb>>
lazyVars == <<lazyProps, lazyState, lazyEnv, lazyObs>>
gridVars == <<items, visibleItems, loading, loadDelay, completedLoads, acceptedSinceChange, gridEvent>>

VARIABLES
  \* ImageZoomModal props
  isOpen,
  modalThumbnailUrl,         \* TRUE iff a thumbnail URL was passed
  \* ImageZoomModal state (useState)
  zoom, baseZoom,            \* rationals <<numerator, denominator>>
  position,                  \* <<x, y>>
  dragging,
  dragStart,                 \* [x, y, posX, posY]
  isFullImageLoaded,
  modalShowFullImage,        \* the showFullImage state cell
  \* ImageZoomModal environment
  modalMounted,
  modalImg,                  \* the full <img>: none/fetching/loaded/error
  geometry,                  \* [cw, ch, iw, ih]: container box, natural image size
  effectsPending,            \* a commit whose passive effects have not run yet
  committed,                 \* [isOpen, baseZoom] as rendered by that commit
  keyListener,               \* [on, isOpen, baseZoom]: the registered handleKeyDown
  \* ImageZoomModal observations
  onCloseCalls,
  opens,
  drags,                     \* drags started so far
  zoomOps,                   \* zoom requests handled so far
  wasDirty,                  \* zoom/pan/load state was off canonical before the last open or load
  lastKey                    \* none, or open/closed: the last step was a keydown, delivered while open/closed

modalProps == <<isOpen, modalThumbnailUrl>>
modalState == <<zoom, baseZoom, position, dragging, dragStart, isFullImageLoaded, modalShowFullImage>>
modalEnv == <<modalMounted, modalImg, geometry, effectsPending, committed, keyListener>>
modalObs == <<onCloseCalls, opens, drags, zoomOps, wasDirty, lastKey>>
zoomVars == <<modalProps, modalState, modalEnv, modalObs>>

VARIABLES
  \* ThumbnailService and its environment
  files,                     \* the thumbnail directory: file name -> [owner, encoding, quality, complete]
  tasks,                     \* the single-variant generation calls made so far, in call order
  multis,                    \* the generateMultipleThumbnails calls made so far
  dirExists,                 \* the thumbnail directory exists
  startup,                   \* ensureThumbnailDirectory(): [mkdir, logged, thrown]
  \* ThumbnailService observations
  deletes,                   \* deleteThumbnail calls completed so far
  lastDelete,                \* [url, returned, raised] of the last deleteThumbnail call
  deletedUrls,               \* URLs for which deleteThumbnail has returned true
  interfered                 \* a generation call has overwritten or removed another call's file

dirVars == <<dirExists, startup>>
thumbVars == <<files, tasks, multis, dirVars, deletes, lastDelete, deletedUrls, interfered>>

VARIABLES
  \* MemStorage and the /api/media routes
  mediaItems,                \* the mediaItems map: id -> [thumbnailUrl]
  mediaIds,                  \* number of media records created so far
  \* observations
  deletedItems,              \* the records removed through DELETE /api/media/:id
  lastStatus                 \* HTTP status of the last /api/media response (0: none yet)

mediaVars == <<mediaItems, mediaIds, deletedItems, lastStatus>>

vars == <<lazyVars, gridVars, zoomVars, thumbVars, mediaVars>>

\* ================================================================ LazyImage

\* The five useState cells as one value.
State == [imageLoaded |-> imageLoaded, imageInView |-> imageInView,
          imageError |-> imageError, thumbnailLoaded |-> thumbnailLoaded,
          shouldLoadFullImage |-> shouldLoadFullImage]

InitialState == [imageLoaded |-> FALSE, imageInView |-> FALSE, imageError |-> FALSE,
                 thumbnailLoaded |-> FALSE, shouldLoadFullImage |-> FALSE]

\* "Determine what to show"
showThumbnail(s) == s.imageInView /\ thumbnailUrl /\ ~s.imageLoaded
showFullImage(s) == s.imageInView /\ thumbnailUrl /\ s.imageLoaded
showDirectImage_NoViewportGate(s) == ~thumbnailUrl
showDirectImage(s) == s.imageInView /\ ~thumbnailUrl
showSkeleton(s) == ~s.imageInView
showErrorPlaceholder(s) == s.imageError

\* The full-image effect: runs when one of its dependencies changed, and then
\* creates a probe Image when its condition holds.
FullImageEffect_EveryRender(old, new) ==
  new.shouldLoadFullImage /\ ~new.imageLoaded /\ thumbnailUrl
FullImageEffect(old, new) ==
  /\ <<old.shouldLoadFullImage, old.imageLoaded>> # <<new.shouldLoadFullImage, new.imageLoaded>>
  /\ new.shouldLoadFullImage /\ ~new.imageLoaded /\ thumbnailUrl

\* An <img> element across a render: removed when its condition is false,
\* created (and its src requested) when the condition becomes true.
ElNext(el, show) == IF ~show THEN "none" ELSE IF el = "none" THEN "fetching" ELSE el
ElCreated(el, show) == show /\ el = "none"

\* State setters followed by the render and the effects of that render.
\* t, f, d: the elements as the event left them; p: the pending probes.
Commit(new, t, f, d, p) ==
  IF mounted
  THEN /\ imageLoaded' = new.imageLoaded
       /\ imageInView' = new.imageInView
       /\ imageError' = new.imageError
       /\ thumbnailLoaded' = new.thumbnailLoaded
       /\ shouldLoadFullImage' = new.shouldLoadFullImage
       /\ thumbEl' = ElNext(t, showThumbnail(new))
       \* the full <img> asks for a URL the probe has already loaded: it is
       \* served at once from the browser's available images, or refetched
       /\ fullEl' \in IF ElCreated(f, showFullImage(new)) THEN {"loaded", "fetching"}
                      ELSE {ElNext(f, showFullImage(new))}
       /\ directEl' = ElNext(d, showDirectImage(new))
       /\ probes' = p + (IF FullImageEffect(State, new) THEN 1 ELSE 0)
       /\ net' = [thumb |-> net.thumb + (IF ElCreated(t, showThumbnail(new)) THEN 1 ELSE 0),
                  full |-> net.full + (IF ElCreated(f, showFullImage(new)) THEN 1 ELSE 0),
                  direct |-> net.direct + (IF ElCreated(d, showDirectImage(new)) THEN 1 ELSE 0),
                  probe |-> net.probe + (IF FullImageEffect(State, new) THEN 1 ELSE 0)]
  ELSE /\ UNCHANGED <<lazyState, thumbEl, fullEl, directEl, net>>
       /\ probes' = p

\* handleLoad: setImageLoaded(true); onLoad?.()
handleLoad(t, f, d, p) ==
  /\ Commit([State EXCEPT !.imageLoaded = TRUE], t, f, d, p)
  /\ onLoadCalls' = onLoadCalls + 1
  /\ UNCHANGED <<onErrorCalls, timers, sinceThumb>>

\* handleError: setImageError(true); onError?.()
handleError(t, f, d, p) ==
  /\ Commit([State EXCEPT !.imageError = TRUE], t, f, d, p)
  /\ onErrorCalls' = onErrorCalls + 1
  /\ UNCHANGED <<onLoadCalls, timers, sinceThumb>>

\* handleThumbnailLoad: setThumbnailLoaded(true) and, in immediate mode, the
\* 1.5 s timer.
handleThumbnailLoad_TimerAlways(t) ==
  /\ Commit([State EXCEPT !.thumbnailLoaded = TRUE], t, fullEl, directEl, probes)
  /\ timers' = Append(timers, ImmediateDelay)
  /\ sinceThumb' = 0
  /\ UNCHANGED <<onLoadCalls, onErrorCalls>>

handleThumbnailLoad(t) ==
  /\ Commit([State EXCEPT !.thumbnailLoaded = TRUE], t, fullEl, directEl, probes)
  /\ timers' = IF loadFullImageImmediately /\ thumbnailUrl
               THEN Append(timers, ImmediateDelay) ELSE timers
  /\ sinceThumb' = 0
  /\ UNCHANGED <<onLoadCalls, onErrorCalls>>

\* triggerFullImageLoad
triggerFullImageLoad ==
  /\ Commit(IF thumbnailUrl /\ ~shouldLoadFullImage
            THEN [State EXCEPT !.shouldLoadFullImage = TRUE] ELSE State,
            thumbEl, fullEl, directEl, probes)
  /\ UNCHANGED <<onLoadCalls, onErrorCalls, timers, sinceThumb>>

\* The IntersectionObserver callback, for one entry of the container.
IntersectionCallback_FollowsEntry(isIntersecting) ==
  /\ Commit([State EXCEPT !.imageInView = isIntersecting], thumbEl, fullEl, directEl, probes)
  /\ observing' = observing
  /\ UNCHANGED <<onLoadCalls, onErrorCalls, timers, sinceThumb>>

IntersectionCallback(isIntersecting) ==
  /\ Commit(IF isIntersecting THEN [State EXCEPT !.imageInView = TRUE] ELSE State,
            thumbEl, fullEl, directEl, probes)
  /\ observing' = (observing /\ ~isIntersecting)
  /\ UNCHANGED <<onLoadCalls, onErrorCalls, timers, sinceThumb>>

\* ---------------------------------------------------------------- LazyImage steps

LazyFrame == UNCHANGED <<lazyProps, gridVars, zoomVars, thumbVars, mediaVars>>

\* The observer reports the container (entering or not entering the viewport).
Intersect ==
  /\ observing
  /\ \E isIntersecting \in BOOLEAN : IntersectionCallback(isIntersecting)
  /\ lastEvent' = "intersect"
  /\ UNCHANGED <<mounted, hovered>>
  /\ LazyFrame

\* mouseenter on the thumbnail <img>
PointerEnter ==
  /\ thumbEl # "none"
  /\ triggerFullImageLoad
  /\ lastEvent' = "pointerEnter"
  /\ hovered' = TRUE
  /\ UNCHANGED <<mounted, observing>>
  /\ LazyFrame

\* load / error of the thumbnail <img>
ThumbnailLoad ==
  /\ thumbEl = "fetching"
  /\ handleThumbnailLoad("loaded")
  /\ lastEvent' = "thumbnailLoad"
  /\ UNCHANGED <<mounted, observing, hovered>>
  /\ LazyFrame

ThumbnailError ==
  /\ thumbEl = "fetching"
  /\ handleError("error", fullEl, directEl, probes)
  /\ lastEvent' = "thumbnailError"
  /\ UNCHANGED <<mounted, observing, hovered>>
  /\ LazyFrame

\* load / error of the probe Image
ProbeLoad ==
  /\ probes > 0
  /\ handleLoad(thumbEl, fullEl, directEl, probes - 1)
  /\ lastEvent' = "probeLoad"
  /\ UNCHANGED <<mounted, observing, hovered>>
  /\ LazyFrame

ProbeError ==
  /\ probes > 0
  /\ handleError(thumbEl, fullEl, directEl, probes - 1)
  /\ lastEvent' = "probeError"
  /\ UNCHANGED <<mounted, observing, hovered>>
  /\ LazyFrame

\* load (no handler) / error of the full <img>
FullElementLoad ==
  /\ fullEl = "fetching"
  /\ Commit(State, thumbEl, "loaded", directEl, probes)
  /\ lastEvent' = "fullLoad"
  /\ UNCHANGED <<mounted, observing, hovered, onLoadCalls, onErrorCalls, timers, sinceThumb>>
  /\ LazyFrame

FullElementError ==
  /\ fullEl = "fetching"
  /\ handleError(thumbEl, "error", directEl, probes)
  /\ lastEvent' = "fullError"
  /\ UNCHANGED <<mounted, observing, hovered>>
  /\ LazyFrame

\* load / error of the direct <img>
DirectLoad ==
  /\ directEl = "fetching"
  /\ handleLoad(thumbEl, fullEl, "loaded", probes)
  /\ lastEvent' = "directLoad"
  /\ UNCHANGED <<mounted, observing, hovered>>
  /\ LazyFrame

DirectError ==
  /\ directEl = "fetching"
  /\ handleError(thumbEl, fullEl, "error", probes)
  /\ lastEvent' = "directError"
  /\ UNCHANGED <<mounted, observing, hovered>>
  /\ LazyFrame

\* The immediate-mode timer expires: setShouldLoadFullImage(true)
TimerExpiry ==
  /\ timers # <<>> /\ Head(timers) = 0
  /\ Commit([State EXCEPT !.shouldLoadFullImage = TRUE], thumbEl, fullEl, directEl, probes)
  /\ timers' = Tail(timers)
  /\ lastEvent' = "timer"
  /\ UNCHANGED <<mounted, observing, hovered, onLoadCalls, onErrorCalls, sinceThumb>>
  /\ LazyFrame

\* Time passes while a timer is pending.
Tick ==
  /\ timers # <<>>
  /\ \A i \in 1..Len(timers) : timers[i] > 0
  /\ timers' = [i \in 1..Len(timers) |-> Max(0, timers[i] - TickMs)]
  /\ sinceThumb' = IF sinceThumb < 0 THEN sinceThumb ELSE Min(ImmediateDelay, sinceThumb + TickMs)
  /\ lastEvent' = "tick"
  /\ UNCHANGED <<lazyState, mounted, observing, thumbEl, fullEl, directEl, probes,
                 net, onLoadCalls, onErrorCalls, hovered>>
  /\ LazyFrame

\* The caller unmounts the instance: the effect cleanup unobserves the
\* container and React removes the rendered elements.  The timer and the
\* probe are not cancelled.
Unmount ==
  /\ mounted
  /\ mounted' = FALSE
  /\ observing' = FALSE
  /\ thumbEl' = "none" /\ fullEl' = "none" /\ directEl' = "none"
  /\ lastEvent' = "unmount"
  /\ UNCHANGED <<lazyState, probes, timers, net, onLoadCalls, onErrorCalls, hovered, sinceThumb>>
  /\ LazyFrame

\* ================================================================ VirtualizedGrid

ItemList(ver, n) == [i \in 1..n |-> <<ver, i>>]

\* items.slice(0, visibleItems)
displayedItems == SubSeq(items.list, 1, Min(visibleItems, Len(items.list)))

hasMore_Inclusive == visibleItems <= Len(items.list)
hasMore == visibleItems < Len(items.list)

GridFrame == UNCHANGED <<lazyVars, zoomVars, thumbVars, mediaVars>>

\* loadMore up to its await
loadMore_NoLoadingGuard ==
  /\ IF ~hasMore
     THEN UNCHANGED <<loading, loadDelay, acceptedSinceChange>>
     ELSE /\ loading' = TRUE
          /\ loadDelay' = LoadMoreDelay
          /\ acceptedSinceChange' = TRUE
  /\ gridEvent' = "loadMore"
  /\ UNCHANGED <<items, visibleItems, completedLoads>>
  /\ GridFrame
loadMore ==
  /\ IF loading \/ ~hasMore
     THEN UNCHANGED <<loading, loadDelay, acceptedSinceChange>>
     ELSE /\ loading' = TRUE
          /\ loadDelay' = LoadMoreDelay
          /\ acceptedSinceChange' = TRUE
  /\ gridEvent' = "loadMore"
  /\ UNCHANGED <<items, visibleItems, completedLoads>>
  /\ GridFrame

\* loadMore after its await
loadMoreResume_ClampsToLength ==
  /\ loadDelay = 0
  /\ visibleItems' = Min(visibleItems + ITEMS_PER_PAGE, Len(items.list))
  /\ loading' = FALSE
  /\ loadDelay' = -1
  /\ completedLoads' = completedLoads + 1
  /\ gridEvent' = "resume"
  /\ UNCHANGED <<items, acceptedSinceChange>>
  /\ GridFrame
loadMoreResume ==
  /\ loadDelay = 0
  /\ visibleItems' = visibleItems + ITEMS_PER_PAGE
  /\ loading' = FALSE
  /\ loadDelay' = -1
  /\ completedLoads' = completedLoads + 1
  /\ gridEvent' = "resume"
  /\ UNCHANGED <<items, acceptedSinceChange>>
  /\ GridFrame

GridTick ==
  /\ loadDelay > 0
  /\ loadDelay' = Max(0, loadDelay - GridTickMs)
  /\ gridEvent' = "tick"
  /\ UNCHANGED <<items, visibleItems, loading, completedLoads, acceptedSinceChange>>
  /\ GridFrame

\* The parent passes a new items array; the reset effect runs.
ItemsChange ==
  /\ items.ver < MaxVersions
  /\ \E n \in 0..MaxItems : items' = [ver |-> items.ver + 1, list |-> ItemList(items.ver + 1, n)]
  /\ visibleItems' = ITEMS_PER_PAGE
  /\ acceptedSinceChange' = FALSE
  /\ gridEvent' = "itemsChange"
  /\ UNCHANGED <<loading, loadDelay, completedLoads>>
  /\ GridFrame

\* ================================================================ ImageZoomModal

\* Non-negative rationals <<n, d>>, d > 0, in lowest terms.
RECURSIVE GCD(_, _)
GCD(a, b) == IF b = 0 THEN a ELSE GCD(b, a % b)
Rat(n, d) == LET g == GCD(n, d) IN <<n \div g, d \div g>>
RMul(a, b) == Rat(a[1] * b[1], a[2] * b[2])
RDiv(a, b) == Rat(a[1] * b[2], a[2] * b[1])
RLess(a, b) == a[1] * b[2] < b[1] * a[2]
RLeq(a, b) == a[1] * b[2] <= b[1] * a[2]
RMin(a, b) == IF RLess(b, a) THEN b ELSE a
RMax(a, b) == IF RLess(a, b) THEN b ELSE a
\* Math.round of a non-negative rational
Round(a) == (2 * a[1] + a[2]) \div (2 * a[2])

One == <<1, 1>>
ZoomStep == <<3, 2>>
MaxZoomFactor == <<5, 1>>
MinZoomFactor == <<1, 5>>

\* Container boxes and natural image sizes of the assets viewed.
Geometries ==
  { [cw |-> 800, ch |-> 600, iw |-> 400, ih |-> 300],      \* smaller than the box
    [cw |-> 800, ch |-> 600, iw |-> 1600, ih |-> 900],     \* width-bound, fit 1/2
    [cw |-> 800, ch |-> 600, iw |-> 800, ih |-> 1200] }    \* height-bound, fit 1/2

Points == { <<c, MaxCoord - c>> : c \in 0..MaxCoord }

calculateFitZoom_Uncapped(g) == RMin(Rat(g.cw, g.iw), Rat(g.ch, g.ih))
calculateFitZoom(g) == RMin(RMin(Rat(g.cw, g.iw), Rat(g.ch, g.ih)), One)

\* The displayed percentage
zoomPercent == Round(RMul(RDiv(zoom, baseZoom), <<100, 1>>))

ModalInitialState ==
  [zoom |-> One, baseZoom |-> One, position |-> <<0, 0>>, dragging |-> FALSE,
   dragStart |-> [x |-> 0, y |-> 0, posX |-> 0, posY |-> 0],
   isFullImageLoaded |-> FALSE, modalShowFullImage |-> FALSE]

ModalStateIs(s) ==
  /\ zoom = s.zoom /\ baseZoom = s.baseZoom /\ position = s.position
  /\ dragging = s.dragging /\ dragStart = s.dragStart
  /\ isFullImageLoaded = s.isFullImageLoaded /\ modalShowFullImage = s.modalShowFullImage

Canonical ==
  zoom = baseZoom /\ position = <<0, 0>> /\ ~isFullImageLoaded

\* The reset effect ("Reset zoom and position when modal opens")
resetEffect_KeepsPan ==
  IF isOpen
  THEN /\ zoom' = One /\ baseZoom' = One
       /\ position' = position
       /\ isFullImageLoaded' = FALSE
       /\ modalShowFullImage' = ~modalThumbnailUrl
       /\ UNCHANGED <<dragging, dragStart>>
  ELSE UNCHANGED modalState

resetEffect ==
  IF isOpen
  THEN /\ zoom' = One /\ baseZoom' = One
       /\ position' = <<0, 0>>
       /\ isFullImageLoaded' = FALSE
       /\ modalShowFullImage' = ~modalThumbnailUrl
       /\ UNCHANGED <<dragging, dragStart>>
  ELSE UNCHANGED modalState

\* handleZoomIn / handleZoomOut with the baseZoom b their closure holds
handleZoomIn_ResetsPan(b) ==
  /\ zoomOps < MaxZoomOps /\ zoomOps' = zoomOps + 1
  /\ zoom' = RMin(RMul(zoom, ZoomStep), RMul(b, MaxZoomFactor))
  /\ position' = <<0, 0>>
  /\ UNCHANGED <<baseZoom, dragging, dragStart, isFullImageLoaded, modalShowFullImage>>

handleZoomIn(b) ==
  /\ zoomOps < MaxZoomOps /\ zoomOps' = zoomOps + 1
  /\ zoom' = RMin(RMul(zoom, ZoomStep), RMul(b, MaxZoomFactor))
  /\ UNCHANGED <<baseZoom, position, dragging, dragStart, isFullImageLoaded, modalShowFullImage>>

handleZoomOut(b) ==
  /\ zoomOps < MaxZoomOps /\ zoomOps' = zoomOps + 1
  /\ zoom' = RMax(RDiv(zoom, ZoomStep), RMul(b, MinZoomFactor))
  /\ UNCHANGED <<baseZoom, position, dragging, dragStart, isFullImageLoaded, modalShowFullImage>>

handleMouseDown(e) ==
  IF RLess(baseZoom, zoom)
  THEN /\ dragging' = TRUE
       /\ dragStart' = [x |-> e[1], y |-> e[2], posX |-> position[1], posY |-> position[2]]
       /\ UNCHANGED <<zoom, baseZoom, position, isFullImageLoaded, modalShowFullImage>>
  ELSE UNCHANGED modalState

handleMouseMove_NoZoomGuard(e) ==
  IF dragging
  THEN /\ position' = <<dragStart.posX + (e[1] - dragStart.x), dragStart.posY + (e[2] - dragStart.y)>>
       /\ UNCHANGED <<zoom, baseZoom, dragging, dragStart, isFullImageLoaded, modalShowFullImage>>
  ELSE UNCHANGED modalState

handleMouseMove(e) ==
  IF dragging /\ RLess(baseZoom, zoom)
  THEN /\ position' = <<dragStart.posX + (e[1] - dragStart.x), dragStart.posY + (e[2] - dragStart.y)>>
       /\ UNCHANGED <<zoom, baseZoom, dragging, dragStart, isFullImageLoaded, modalShowFullImage>>
  ELSE UNCHANGED modalState

handleMouseUp ==
  /\ dragging' = FALSE
  /\ UNCHANGED <<zoom, baseZoom, position, dragStart, isFullImageLoaded, modalShowFullImage>>

\* onLoad of the full <img>
imageOnLoad_FlagOnly ==
  /\ baseZoom' = calculateFitZoom(geometry)
  /\ zoom' = calculateFitZoom(geometry)
  /\ position' = <<0, 0>>
  /\ isFullImageLoaded' = TRUE
  /\ UNCHANGED <<modalShowFullImage, dragging, dragStart>>

imageOnLoad ==
  /\ baseZoom' = calculateFitZoom(geometry)
  /\ zoom' = calculateFitZoom(geometry)
  /\ position' = <<0, 0>>
  /\ isFullImageLoaded' = TRUE
  /\ modalShowFullImage' = TRUE
  /\ UNCHANGED <<dragging, dragStart>>

SetModalState(s) ==
  /\ zoom' = s.zoom /\ baseZoom' = s.baseZoom /\ position' = s.position
  /\ dragging' = s.dragging /\ dragStart' = s.dragStart
  /\ isFullImageLoaded' = s.isFullImageLoaded /\ modalShowFullImage' = s.modalShowFullImage

\* The parent's onClose: it closes the modal and may unmount it (PortfolioGrid
\* clears selectedImage), which discards the instance's state.  The keydown
\* effect of that commit re-registers the listener, or its cleanup removes it.
onClose(unmount) ==
  /\ onCloseCalls' = onCloseCalls + 1
  /\ IF unmount THEN SetModalState(ModalInitialState) ELSE UNCHANGED modalState
  /\ isOpen' = FALSE
  /\ modalImg' = "none"
  /\ modalMounted' = (modalMounted /\ ~unmount)
  /\ keyListener' = [on |-> modalMounted /\ ~unmount, isOpen |-> FALSE,
                     baseZoom |-> IF unmount THEN One ELSE baseZoom]
  /\ committed' = [isOpen |-> FALSE, baseZoom |-> IF unmount THEN One ELSE baseZoom]
  /\ UNCHANGED <<modalThumbnailUrl, geometry, effectsPending>>

\* handleKeyDown as registered: isOpen and baseZoom are those of the render
\* whose keydown effect registered it.
handleKeyDown_NoOpenGuard(key) ==
  IF key = "Escape"
  THEN /\ \E unmount \in BOOLEAN : onClose(unmount)
       /\ UNCHANGED zoomOps
  ELSE /\ IF key \in {"=", "+"} THEN handleZoomIn(keyListener.baseZoom)
          ELSE IF key = "-" THEN handleZoomOut(keyListener.baseZoom)
          ELSE UNCHANGED <<modalState, zoomOps>>
       /\ UNCHANGED <<modalProps, modalEnv, onCloseCalls>>

handleKeyDown(key) ==
  IF ~keyListener.isOpen
  THEN UNCHANGED <<modalProps, modalState, modalEnv, onCloseCalls, zoomOps>>
  ELSE IF key = "Escape"
  THEN /\ \E unmount \in BOOLEAN : onClose(unmount)
       /\ UNCHANGED zoomOps
  ELSE /\ IF key \in {"=", "+"} THEN handleZoomIn(keyListener.baseZoom)
          ELSE IF key = "-" THEN handleZoomOut(keyListener.baseZoom)
          ELSE UNCHANGED <<modalState, zoomOps>>
       /\ UNCHANGED <<modalProps, modalEnv, onCloseCalls>>

\* ---------------------------------------------------------------- ImageZoomModal steps

ZoomFrame == UNCHANGED <<lazyVars, gridVars, thumbVars, mediaVars>>

Keys == {"Escape", "+", "=", "-", "a"}

\* The parent mounts the modal, open, for an asset (first commit).
ModalMount ==
  /\ ~modalMounted /\ opens < MaxOpens
  /\ modalMounted' = TRUE
  /\ isOpen' = TRUE
  /\ modalThumbnailUrl' \in BOOLEAN
  /\ geometry' \in Geometries
  /\ SetModalState(ModalInitialState)
  /\ modalImg' = "fetching"
  /\ effectsPending' = TRUE
  /\ committed' = [isOpen |-> TRUE, baseZoom |-> One]
  /\ opens' = opens + 1
  /\ UNCHANGED <<drags, zoomOps>>
  /\ wasDirty' = FALSE
  /\ lastKey' = "none"
  /\ UNCHANGED <<keyListener, onCloseCalls>>
  /\ ZoomFrame

\* The parent re-opens the mounted, closed modal for an asset.
ModalOpen ==
  /\ modalMounted /\ ~isOpen /\ ~effectsPending /\ opens < MaxOpens
  /\ isOpen' = TRUE
  /\ modalThumbnailUrl' \in BOOLEAN
  /\ geometry' \in Geometries
  /\ modalImg' = "fetching"
  /\ effectsPending' = TRUE
  /\ committed' = [isOpen |-> TRUE, baseZoom |-> baseZoom]
  /\ opens' = opens + 1
  /\ UNCHANGED <<drags, zoomOps>>
  /\ wasDirty' = ~Canonical
  /\ lastKey' = "none"
  /\ UNCHANGED <<modalState, modalMounted, keyListener, onCloseCalls>>
  /\ ZoomFrame

\* The passive effects of the opening commit: the reset effect, then the
\* keydown effect.
ModalEffects ==
  /\ effectsPending
  /\ resetEffect
  /\ keyListener' = [on |-> TRUE, isOpen |-> committed.isOpen, baseZoom |-> committed.baseZoom]
  /\ effectsPending' = FALSE
  /\ lastKey' = "none"
  /\ UNCHANGED <<modalProps, modalMounted, modalImg, geometry, committed, onCloseCalls, opens, drags, zoomOps, wasDirty>>
  /\ ZoomFrame

\* load of the full <img>; it may arrive before the passive effects of the
\* commit that created the element.
ModalImageLoad ==
  /\ modalImg = "fetching"
  /\ imageOnLoad
  /\ modalImg' = "loaded"
  /\ wasDirty' = (zoom # baseZoom \/ position # <<0, 0>>)
  /\ lastKey' = "none"
  /\ UNCHANGED <<modalProps, modalMounted, geometry, effectsPending, committed, keyListener,
                 onCloseCalls, opens, drags, zoomOps>>
  /\ ZoomFrame

\* error of the full <img> (no handler)
ModalImageError ==
  /\ modalImg = "fetching" /\ ~effectsPending
  /\ modalImg' = "error"
  /\ lastKey' = "none"
  /\ UNCHANGED <<modalProps, modalState, modalMounted, geometry, effectsPending, committed,
                 keyListener, onCloseCalls, opens, drags, zoomOps, wasDirty>>
  /\ ZoomFrame

Interactive == modalMounted /\ isOpen /\ ~effectsPending

\* what the image container renders
showThumbnailPlaceholder == modalThumbnailUrl /\ ~modalShowFullImage
fullImageVisible == modalShowFullImage        \* opacity-100, else opacity-0
showLoadingIndicator == modalThumbnailUrl /\ ~isFullImageLoaded

ZoomInClick ==
  /\ Interactive
  /\ handleZoomIn(baseZoom)
  /\ lastKey' = "none"
  /\ UNCHANGED <<modalProps, modalEnv, onCloseCalls, opens, drags, wasDirty>>
  /\ ZoomFrame

ZoomOutClick ==
  /\ Interactive
  /\ handleZoomOut(baseZoom)
  /\ lastKey' = "none"
  /\ UNCHANGED <<modalProps, modalEnv, onCloseCalls, opens, drags, wasDirty>>
  /\ ZoomFrame

\* The close button, or the dialog's own dismissal
CloseClick ==
  /\ Interactive
  /\ \E unmount \in BOOLEAN : onClose(unmount)
  /\ lastKey' = "none"
  /\ UNCHANGED <<opens, drags, zoomOps, wasDirty>>
  /\ ZoomFrame

\* keydown on the document
KeyDown ==
  /\ keyListener.on /\ ~effectsPending
  /\ \E key \in Keys : handleKeyDown(key)
  /\ lastKey' = (IF isOpen THEN "open" ELSE "closed")
  /\ UNCHANGED <<opens, drags, wasDirty>>
  /\ ZoomFrame

InPan(p) == p[1] \in -MaxPan..MaxPan /\ p[2] \in -MaxPan..MaxPan

MouseDown ==
  /\ Interactive
  /\ RLess(baseZoom, zoom) => drags < MaxDrags
  /\ \E e \in Points : handleMouseDown(e)
  /\ drags' = IF RLess(baseZoom, zoom) THEN drags + 1 ELSE drags
  /\ lastKey' = "none"
  /\ UNCHANGED <<modalProps, modalEnv, onCloseCalls, opens, zoomOps, wasDirty>>
  /\ ZoomFrame

MouseMove ==
  /\ Interactive
  /\ \E e \in Points : handleMouseMove(e)
  /\ InPan(position')
  /\ lastKey' = "none"
  /\ UNCHANGED <<modalProps, modalEnv, onCloseCalls, opens, drags, zoomOps, wasDirty>>
  /\ ZoomFrame

\* mouseup or mouseleave on the dialog content
MouseUp ==
  /\ Interactive
  /\ handleMouseUp
  /\ lastKey' = "none"
  /\ UNCHANGED <<modalProps, modalEnv, onCloseCalls, opens, drags, zoomOps, wasDirty>>
  /\ ZoomFrame

ModalUnmounted ==
  /\ isOpen = FALSE /\ modalThumbnailUrl = FALSE
  /\ ModalStateIs(ModalInitialState)
  /\ modalMounted = FALSE /\ modalImg = "none"
  /\ geometry = [cw |-> 800, ch |-> 600, iw |-> 400, ih |-> 300]
  /\ effectsPending = FALSE
  /\ committed = [isOpen |-> FALSE, baseZoom |-> One]
  /\ keyListener = [on |-> FALSE, isOpen |-> FALSE, baseZoom |-> One]
  /\ onCloseCalls = 0 /\ opens = 0 /\ drags = 0 /\ zoomOps = 0 /\ wasDirty = FALSE
  /\ lastKey = "none"

\* ================================================================ ThumbnailService

\* what a call of a service method leaves alone: the other components, and
\* the directory itself and the record of its creation
ThumbFrame == UNCHANGED <<lazyVars, gridVars, zoomVars, mediaVars, dirVars>>

\* ---------------------------------------------------------------- names, URLs, options

\* Strings the code inspects are sequences of characters.
StartsWith(s, prefix) == Len(s) >= Len(prefix) /\ SubSeq(s, 1, Len(prefix)) = prefix

thumbnailDir == "thumbnails"
getBaseUrl == <<"h", "t", "t", "p", ":", "/", "/", "l">>

\* A file name of the thumbnail directory, <prefix><id>.<ext>: id is the
\* number of the UUID in it (0: none), ext is "" when there is no extension.
Name(prefix, id, ext) == [prefix |-> prefix, id |-> id, ext |-> ext]
NoName == Name("", 0, "")
\* a well-formed thumbnail name that no generation call produced
MissingName == Name("", 0, "jpeg")

\* crypto.randomUUID(): 122 random bits, a value that was not drawn before.
\* A generation call draws at most twice: draw 1 or 2 of call i.
randomUUID(i, draw) == 2 * (i - 1) + draw

\* ThumbnailOptions as passed by the caller.  given = FALSE: the argument was
\* omitted; format "none" / quality 0: the property is undefined.
OmittedOptions == [given |-> FALSE, format |-> "none", quality |-> 0]
\* Handed to generateThumbnailFromFile and generateThumbnailFromBuffer:
\* width and height only, or a format and a quality with them.
OptionsInputs ==
  { [given |-> TRUE, format |-> "none", quality |-> 0],
    [given |-> TRUE, format |-> "webp", quality |-> 80] }
\* Handed to generateThumbnailFromUrl: nothing, or a format and a quality.
UrlOptionsInputs ==
  { OmittedOptions,
    [given |-> TRUE, format |-> "webp", quality |-> 80] }

\* the default value of the options parameter
WithDefault(options) ==
  IF options.given THEN options
  ELSE [given |-> TRUE, format |-> "jpeg", quality |-> 60]

\* the default value of the sizes parameter: small, medium, large
DefaultSizes ==
  << [given |-> TRUE, format |-> "jpeg", quality |-> 60],
     [given |-> TRUE, format |-> "jpeg", quality |-> 80],
     [given |-> TRUE, format |-> "jpeg", quality |-> 85] >>

\* options.format || 'jpeg'
extension(options) == IF options.format = "none" THEN "jpeg" ELSE options.format

\* `${thumbnailId}.${extension}`
thumbnailFilename(uuid, options) == Name("", uuid, extension(options))

\* `temp_${tempId}`
tempFilename_Shared(uuid) == Name("temp_", 0, "")
tempFilename(uuid) == Name("temp_", uuid, "")

\* sharp(...).resize(...).jpeg({ quality: options.quality || 60 }).toFile(path):
\* the explicit .jpeg() selects the encoder, whatever the extension of path
sharpOutput(options) ==
  [encoding |-> "jpeg",
   quality |-> IF options.quality = 0 THEN 60 ELSE options.quality]

\* `${this.getBaseUrl()}/thumbnails/${thumbnailFilename}`
Url(dir, name) == [base |-> getBaseUrl, dir |-> dir, file |-> name]
NoUrl == [base |-> <<>>, dir |-> "", file |-> NoName]
NoResult == [thumbnailPath |-> [dir |-> "", file |-> NoName], thumbnailUrl |-> NoUrl]
ThumbnailResult(name) ==
  [thumbnailPath |-> [dir |-> thumbnailDir, file |-> name],
   thumbnailUrl |-> Url(thumbnailDir, name)]

\* path.basename: the last path segment
basename(url) == url.file

\* Sources handed to generateMultipleThumbnails
AbsoluteUrl == <<"h", "t", "t", "p", ":", "/", "/", "c", "/", "a">>
RelativeUrl == <<"/", "o", "/", "a">>
LocalPath == <<"u", "/", "a">>
HttpdPath == <<"h", "t", "t", "p", "d", "/", "a">>
Sources ==
  { [type |-> "string", text |-> AbsoluteUrl],
    [type |-> "string", text |-> RelativeUrl],
    [type |-> "string", text |-> LocalPath],
    [type |-> "string", text |-> HttpdPath],
    [type |-> "buffer", text |-> <<>>] }

\* ---------------------------------------------------------------- the directory

\* fs.writeFile / sharp's toFile: create or replace
writeFile(fs, name, content) ==
  [n \in DOMAIN fs \cup {name} |-> IF n = name THEN content ELSE fs[n]]

\* fs.unlink rejects when there is no such file
unlinkFails(fs, name) == name \notin DOMAIN fs
unlink(fs, name) == [n \in DOMAIN fs \ {name} |-> fs[n]]

\* name holds a file that call i did not write
Foreign(fs, name, i) == name \in DOMAIN fs /\ fs[name].owner # i

\* ---------------------------------------------------------------- one generation call

\* the Error a generation call throws from its catch block: the text before
\* the colon (after it comes the message of the error that was caught)
NoError == ""
ErrorOf(kind) ==
  IF kind = "url" THEN "Thumbnail generation from URL failed" ELSE "Thumbnail generation failed"

NewTask(kind, parent, tier, options) ==
  [kind |-> kind,               \* file, buffer, url: the pipeline
   parent |-> parent,           \* the generateMultipleThumbnails call awaiting it, or 0
   tier |-> tier,
   options |-> WithDefault(options),   \* the options parameter
   pc |-> "start",              \* the await the call is suspended at
   status |-> "pending",        \* of the promise it returned
   fullUrl |-> <<>>,            \* the URL being fetched, while it is
   temp |-> NoName,
   out |-> NoName,
   result |-> NoResult,
   error |-> NoError]           \* the message the returned promise was rejected with, up to its colon

\* generateThumbnailFromFile and generateThumbnailFromBuffer up to their await
generateThumbnailFromFile(t, uuid) ==
  [t EXCEPT !.out = thumbnailFilename(uuid, t.options), !.pc = "resize"]

\* generateThumbnailFromUrl up to the await of fetch
generateThumbnailFromUrl(t, uuid, imageUrl) ==
  [t EXCEPT !.temp = tempFilename(uuid),
            !.fullUrl = IF StartsWith(imageUrl, <<"/">>)
                        THEN getBaseUrl \o imageUrl ELSE imageUrl,
            !.pc = "fetch"]

\* the promise of call i settles: return after the try block, or throw new
\* Error(...) in the catch block
settle_Swallows(ts, i, status) ==
  [ts EXCEPT ![i].status = "resolved", ![i].pc = "done"]

settle(ts, i, status) ==
  [ts EXCEPT ![i].status = status, ![i].pc = "done",
             ![i].error = IF status = "rejected" THEN ErrorOf(ts[i].kind) ELSE NoError]

\* the catch block of generateThumbnailFromUrl: unlink(tempPath).catch(() => {})
cleanupOnError_Skipped(fs, name) == fs
cleanupOnError(fs, name) == unlink(fs, name)

\* which pipeline generateMultipleThumbnails runs the tiers through
pipeline(source) ==
  IF source.type = "string"
  THEN IF StartsWith(source.text, <<"h", "t", "t", "p">>) \/ StartsWith(source.text, <<"/">>)
       THEN "url" ELSE "file"
  ELSE "buffer"

TierNames == <<"small", "medium", "large">>

\* await Promise.all([tier1, tier2, tier3]) and the statements after it, run
\* in the microtasks that follow the settlement of tier call i (ts: the calls
\* with that settlement applied)
PromiseAll_AllSettled(ms, ts, i) ==
  LET m == ts[i].parent IN
  IF m = 0 \/ \E k \in 1..3 : ts[ms[m].tiers[k]].status = "pending" THEN ms
  ELSE [ms EXCEPT ![m].status = "resolved",
                  ![m].results =
                     [n \in { TierNames[k] : k \in { j \in 1..3 : ts[ms[m].tiers[j]].status = "resolved" } }
                        |-> ts[ms[m].tiers[CHOOSE k \in 1..3 : TierNames[k] = n]].result]]
PromiseAll(ms, ts, i) ==
  LET m == ts[i].parent IN
  IF m = 0 THEN ms
  ELSE IF ms[m].status # "pending" THEN ms
  ELSE IF ts[i].status = "rejected" THEN [ms EXCEPT ![m].status = "rejected"]
  ELSE IF \A k \in 1..3 : ts[ms[m].tiers[k]].status = "resolved"
  THEN [ms EXCEPT ![m].status = "resolved",
                  ![m].results = [small |-> ts[ms[m].tiers[1]].result,
                                  medium |-> ts[ms[m].tiers[2]].result,
                                  large |-> ts[ms[m].tiers[3]].result]]
  ELSE ms

\* deleteThumbnail: what it leaves in the directory and what it returns
deleteThumbnail_Unchecked(fs, url) ==
  [files |-> unlink(fs, basename(url)), returned |-> TRUE, raised |-> FALSE]
deleteThumbnail(fs, url) ==
  LET filename == basename(url) IN
  IF unlinkFails(fs, filename)
  THEN [files |-> fs, returned |-> FALSE, raised |-> FALSE]
  ELSE [files |-> unlink(fs, filename), returned |-> TRUE, raised |-> FALSE]

\* ---------------------------------------------------------------- ThumbnailService steps
\* A step is the code between two awaits of one call.  The continuations that
\* a settlement schedules (Promise.all, the await in generateMultipleThumbnails)
\* are microtasks: they run before the next I/O completion is delivered, so
\* they belong to the step of the settlement.

\* a caller invokes generateThumbnailFromFile(inputPath, options)
GenerateFromFile ==
  \E options \in OptionsInputs :
    /\ Len(tasks) < MaxTasks
    /\ tasks' = Append(tasks, generateThumbnailFromFile(NewTask("file", 0, 0, options), randomUUID(Len(tasks) + 1, 1)))
    /\ UNCHANGED <<files, multis, deletes, lastDelete, deletedUrls, interfered>>
    /\ ThumbFrame

\* a caller invokes generateThumbnailFromBuffer(buffer, options)
GenerateFromBuffer ==
  \E options \in OptionsInputs :
    /\ Len(tasks) < MaxTasks
    /\ tasks' = Append(tasks, generateThumbnailFromFile(NewTask("buffer", 0, 0, options), randomUUID(Len(tasks) + 1, 1)))
    /\ UNCHANGED <<files, multis, deletes, lastDelete, deletedUrls, interfered>>
    /\ ThumbFrame

\* a caller invokes generateThumbnailFromUrl(imageUrl, options)
GenerateFromUrl ==
  \E options \in UrlOptionsInputs, imageUrl \in {AbsoluteUrl} :
    /\ Len(tasks) < MaxTasks
    /\ tasks' = Append(tasks, generateThumbnailFromUrl(NewTask("url", 0, 0, options), randomUUID(Len(tasks) + 1, 1), imageUrl))
    /\ UNCHANGED <<files, multis, deletes, lastDelete, deletedUrls, interfered>>
    /\ ThumbFrame

\* a caller invokes generateMultipleThumbnails(source): the three tier calls
\* run up to their first await, in order, and Promise.all awaits them
generateMultipleThumbnails(source, m, first) ==
  LET tierCall(k) ==
        IF pipeline(source) = "url"
        THEN generateThumbnailFromUrl(NewTask("url", m, k, DefaultSizes[k]),
                                      randomUUID(first + k - 1, 1), source.text)
        ELSE generateThumbnailFromFile(NewTask(pipeline(source), m, k, DefaultSizes[k]),
                                       randomUUID(first + k - 1, 1))
  IN [calls |-> <<tierCall(1), tierCall(2), tierCall(3)>>,
      multi |-> [status |-> "pending", source |-> source, pipeline |-> pipeline(source),
                 tiers |-> <<first, first + 1, first + 2>>,
                 results |-> [n \in {} |-> NoResult]]]

GenerateMultiple ==
  \E source \in Sources :
    LET call == generateMultipleThumbnails(source, Len(multis) + 1, Len(tasks) + 1) IN
    /\ Len(tasks) + 3 <= MaxTasks
    /\ tasks' = tasks \o call.calls
    /\ multis' = Append(multis, call.multi)
    /\ UNCHANGED <<files, deletes, lastDelete, deletedUrls, interfered>>
    /\ ThumbFrame

\* fetch(fullUrl) settles: a 2xx response, another response, or an error (of
\* the network, or the TypeError of a URL that does not parse: no scheme)
FetchSettles ==
  \E i \in 1..Len(tasks), outcome \in {"ok", "notOk", "error"} :
    /\ tasks[i].pc = "fetch"
    /\ outcome # "error" => StartsWith(tasks[i].fullUrl, <<"h", "t", "t", "p", ":", "/", "/">>)
    /\ tasks' = [tasks EXCEPT ![i].pc = IF outcome = "ok" THEN "write" ELSE "cleanupErr",
                              ![i].fullUrl = <<>>]
    /\ UNCHANGED <<files, multis, deletes, lastDelete, deletedUrls, interfered>>
    /\ ThumbFrame

\* fs.writeFile(tempPath, buffer) settles: written, failed after creating the
\* file, or failed without creating it; on success generateThumbnailFromFile
\* is entered with the temp file as its input
WriteSettles ==
  \E i \in 1..Len(tasks), outcome \in {"ok", "partial", "none"} :
    LET t == tasks[i]
        content == [owner |-> i, encoding |-> "source", quality |-> 0, complete |-> (outcome = "ok")]
    IN
    /\ t.pc = "write"
    /\ outcome # "none" => dirExists
    /\ files' = IF outcome = "none" THEN files ELSE writeFile(files, t.temp, content)
    /\ interfered' = (interfered \/ (outcome # "none" /\ Foreign(files, t.temp, i)))
    /\ tasks' = IF outcome = "ok"
                THEN [tasks EXCEPT ![i] = generateThumbnailFromFile(t, randomUUID(i, 2))]
                ELSE [tasks EXCEPT ![i].pc = "cleanupErr"]
    /\ UNCHANGED <<multis, deletes, lastDelete, deletedUrls>>
    /\ ThumbFrame

\* sharp(...).toFile(thumbnailPath) settles: written, or failed without
\* creating the file.  It cannot succeed when its input file is gone.
ResizeSettles ==
  \E i \in 1..Len(tasks), outcome \in {"ok", "none"} :
    LET t == tasks[i]
        enc == sharpOutput(t.options)
        content == [owner |-> i, encoding |-> enc.encoding, quality |-> enc.quality, complete |-> (outcome = "ok")]
        ts == settle([tasks EXCEPT ![i].result = IF outcome = "ok" THEN ThumbnailResult(t.out) ELSE NoResult],
                     i, IF outcome = "ok" THEN "resolved" ELSE "rejected")
    IN
    /\ t.pc = "resize"
    /\ outcome = "ok" => dirExists
    /\ (outcome = "ok" /\ t.kind = "url") => ~unlinkFails(files, t.temp)
    /\ files' = IF outcome = "none" THEN files ELSE writeFile(files, t.out, content)
    /\ interfered' = (interfered \/ (outcome # "none" /\ Foreign(files, t.out, i)))
    /\ IF t.kind = "url"
       THEN /\ tasks' = [tasks EXCEPT ![i].pc = IF outcome = "ok" THEN "cleanupOk" ELSE "cleanupErr",
                                      ![i].result = IF outcome = "ok" THEN ThumbnailResult(t.out) ELSE NoResult]
            /\ UNCHANGED multis
       ELSE /\ tasks' = ts
            /\ multis' = PromiseAll(multis, ts, i)
    /\ UNCHANGED <<deletes, lastDelete, deletedUrls>>
    /\ ThumbFrame

\* fs.unlink(tempPath).catch(() => {}) settles, after the try block or in the
\* catch block, and generateThumbnailFromUrl returns or throws
CleanupSettles ==
  \E i \in 1..Len(tasks) :
    LET t == tasks[i]
        ok == t.pc = "cleanupOk"
        ts == settle([tasks EXCEPT ![i].result = IF ok THEN t.result ELSE NoResult],
                     i, IF ok THEN "resolved" ELSE "rejected")
    IN
    /\ t.pc \in {"cleanupOk", "cleanupErr"}
    /\ files' = IF ok THEN unlink(files, t.temp) ELSE cleanupOnError(files, t.temp)
    /\ interfered' = (interfered \/ Foreign(files, t.temp, i))
    /\ tasks' = ts
    /\ multis' = PromiseAll(multis, ts, i)
    /\ UNCHANGED <<deletes, lastDelete, deletedUrls>>
    /\ ThumbFrame

\* URLs a caller hands to deleteThumbnail: the thumbnailUrl of a result it
\* was given (deleted before or not), or the URL of a file that never existed
DeleteInputs ==
  { tasks[i].result.thumbnailUrl : i \in { j \in 1..Len(tasks) : tasks[j].status = "resolved" } }
    \cup {Url(thumbnailDir, MissingName)}

\* a caller invokes deleteThumbnail(url) and it settles
DeleteThumbnail ==
  \E url \in DeleteInputs :
    LET r == deleteThumbnail(files, url) IN
    /\ deletes < MaxDeletes
    /\ files' = r.files
    /\ deletes' = deletes + 1
    /\ lastDelete' = [url |-> url, returned |-> r.returned, raised |-> r.raised]
    /\ deletedUrls' = IF r.returned THEN deletedUrls \cup {url} ELSE deletedUrls
    /\ UNCHANGED <<tasks, multis, interfered>>
    /\ ThumbFrame

\* the constructor: ensureThumbnailDirectory() is called and not awaited, and
\* the module goes on to export the singleton while mkdir is pending
ThumbnailService(existed) ==
  /\ dirExists = existed
  /\ startup = [mkdir |-> "pending", logged |-> FALSE, thrown |-> FALSE]

\* fs.mkdir(thumbnailDir, { recursive: true }) settles inside
\* ensureThumbnailDirectory: fulfilled (created, or it existed), or rejected
\* (a file of that name, no permission, a read-only file system), which the
\* catch block logs with console.error and nothing else
ensureThumbnailDirectory(outcome) ==
  IF outcome = "ok"
  THEN [dirExists |-> TRUE,
        startup |-> [mkdir |-> "fulfilled", logged |-> FALSE, thrown |-> FALSE]]
  ELSE [dirExists |-> FALSE,
        startup |-> [mkdir |-> "rejected", logged |-> TRUE, thrown |-> FALSE]]

MkdirSettles ==
  \E outcome \in {"ok", "failed"} :
    /\ startup.mkdir = "pending"
    /\ outcome = "failed" => ~dirExists
    /\ dirExists' = ensureThumbnailDirectory(outcome).dirExists
    /\ startup' = ensureThumbnailDirectory(outcome).startup
    /\ UNCHANGED <<files, tasks, multis, deletes, lastDelete, deletedUrls, interfered>>
    /\ UNCHANGED <<lazyVars, gridVars, zoomVars, mediaVars>>

\* no file yet, no call made yet
NoCalls ==
  /\ files = [n \in {} |-> NoName]
  /\ tasks = <<>>
  /\ multis = <<>>
  /\ deletes = 0
  /\ lastDelete = [url |-> NoUrl, returned |-> FALSE, raised |-> FALSE]
  /\ deletedUrls = {}
  /\ interfered = FALSE

\* the singleton once the directory has been created, the directory empty
ServiceStarted ==
  /\ dirExists = TRUE
  /\ startup = [mkdir |-> "fulfilled", logged |-> FALSE, thrown |-> FALSE]
  /\ files = [n \in {} |-> NoName]
  /\ tasks = <<>>
  /\ multis = <<>>
  /\ deletes = 0
  /\ lastDelete = [url |-> NoUrl, returned |-> FALSE, raised |-> FALSE]
  /\ deletedUrls = {}
  /\ interfered = FALSE

\* ================================================================ media records

MediaFrame == UNCHANGED <<lazyVars, gridVars, zoomVars>>

\* MemStorage.createMediaItem: a fresh id, the record stored under it
createMediaItem(ms, id, insertMediaItem) ==
  [i \in DOMAIN ms \cup {id} |-> IF i = id THEN insertMediaItem ELSE ms[i]]

\* MemStorage.deleteMediaItem: Map.delete, true iff the key was present
deleteMediaItem(ms, id) ==
  [success |-> id \in DOMAIN ms, mediaItems |-> [i \in DOMAIN ms \ {id} |-> ms[i]]]

\* thumbnail URLs a client can put into a record: of a thumbnail the service
\* generated, or none
ThumbnailUrlInputs ==
  { tasks[i].result.thumbnailUrl : i \in { j \in 1..Len(tasks) : tasks[j].status = "resolved" } }
    \cup {NoUrl}

\* POST /api/media with a body that insertMediaItemSchema accepts, or not
PostMedia ==
  \E valid \in BOOLEAN, url \in ThumbnailUrlInputs :
    /\ mediaIds < MaxMedia
    /\ IF valid
       THEN /\ mediaItems' = createMediaItem(mediaItems, mediaIds + 1, [thumbnailUrl |-> url])
            /\ mediaIds' = mediaIds + 1
            /\ lastStatus' = 200
       ELSE /\ lastStatus' = 400
            /\ UNCHANGED <<mediaItems, mediaIds>>
    /\ UNCHANGED <<deletedItems, thumbVars>>
    /\ MediaFrame

\* DELETE /api/media/:id, for the id of a record created before or an unknown id (0)
DeleteMedia ==
  \E id \in 0..mediaIds :
    LET r == deleteMediaItem(mediaItems, id) IN
    /\ mediaItems' = r.mediaItems
    /\ lastStatus' = IF r.success THEN 200 ELSE 404
    /\ deletedItems' = IF r.success
                       THEN deletedItems \cup {[id |-> id, thumbnailUrl |-> mediaItems[id].thumbnailUrl]}
                       ELSE deletedItems
    /\ UNCHANGED <<mediaIds, thumbVars>>
    /\ MediaFrame

\* MemStorage right after construction
StorageStarted ==
  /\ mediaItems = [i \in {} |-> [thumbnailUrl |-> NoUrl]]
  /\ mediaIds = 0
  /\ deletedItems = {}
  /\ lastStatus = 0

\* ================================================================ specifications

LazyMounted ==
  /\ imageLoaded = FALSE /\ imageInView = FALSE /\ imageError = FALSE
  /\ thumbnailLoaded = FALSE /\ shouldLoadFullImage = FALSE
  /\ mounted = TRUE /\ observing = TRUE
  /\ thumbEl = ElNext("none", showThumbnail(InitialState))
  /\ fullEl = ElNext("none", showFullImage(InitialState))
  /\ directEl = ElNext("none", showDirectImage(InitialState))
  /\ probes = 0 /\ timers = <<>>
  /\ net = [thumb |-> IF showThumbnail(InitialState) THEN 1 ELSE 0,
            full |-> IF showFullImage(InitialState) THEN 1 ELSE 0,
            direct |-> IF showDirectImage(InitialState) THEN 1 ELSE 0,
            probe |-> 0]
  /\ onLoadCalls = 0 /\ onErrorCalls = 0
  /\ lastEvent = "mount" /\ hovered = FALSE /\ sinceThumb = -1

GridMounted(n) ==
  /\ items = [ver |-> 0, list |-> ItemList(0, n)]
  /\ visibleItems = ITEMS_PER_PAGE
  /\ loading = FALSE
  /\ loadDelay = -1
  /\ completedLoads = 0
  /\ acceptedSinceChange = FALSE
  /\ gridEvent = "mount"

InitLazy ==
  /\ thumbnailUrl \in BOOLEAN
  /\ loadFullImageImmediately \in BOOLEAN
  /\ LazyMounted
  /\ GridMounted(0)
  /\ ModalUnmounted
  /\ ServiceStarted
  /\ StorageStarted

NextLazy ==
  \/ Intersect
  \/ PointerEnter
  \/ ThumbnailLoad
  \/ ThumbnailError
  \/ ProbeLoad
  \/ ProbeError
  \/ FullElementLoad
  \/ FullElementError
  \/ DirectLoad
  \/ DirectError
  \/ TimerExpiry
  \/ Tick
  \/ Unmount

SpecLazy == InitLazy /\ [][NextLazy]_vars

InitGrid ==
  /\ thumbnailUrl = FALSE
  /\ loadFullImageImmediately = FALSE
  /\ LazyMounted
  /\ \E n \in 0..MaxItems : GridMounted(n)
  /\ ModalUnmounted
  /\ ServiceStarted
  /\ StorageStarted

NextGrid ==
  \/ loadMore
  \/ loadMoreResume
  \/ GridTick
  \/ ItemsChange

SpecGrid == InitGrid /\ [][NextGrid]_vars

\* the browser runs a timer that is due, and time passes
SpecGridLive == SpecGrid /\ WF_vars(GridTick) /\ WF_vars(loadMoreResume)

InitZoom ==
  /\ thumbnailUrl = FALSE
  /\ loadFullImageImmediately = FALSE
  /\ LazyMounted
  /\ GridMounted(0)
  /\ ModalUnmounted
  /\ ServiceStarted
  /\ StorageStarted

NextZoom ==
  \/ ModalMount
  \/ ModalOpen
  \/ ModalEffects
  \/ ModalImageLoad
  \/ ModalImageError
  \/ ZoomInClick
  \/ ZoomOutClick
  \/ CloseClick
  \/ KeyDown
  \/ MouseDown
  \/ MouseMove
  \/ MouseUp

SpecZoom == InitZoom /\ [][NextZoom]_vars

InitThumb ==
  /\ thumbnailUrl = FALSE
  /\ loadFullImageImmediately = FALSE
  /\ LazyMounted
  /\ GridMounted(0)
  /\ ModalUnmounted
  /\ ServiceStarted
  /\ StorageStarted

NextThumb ==
  \/ GenerateFromFile
  \/ GenerateFromBuffer
  \/ GenerateFromUrl
  \/ GenerateMultiple
  \/ FetchSettles
  \/ WriteSettles
  \/ ResizeSettles
  \/ CleanupSettles

SpecThumb == InitThumb /\ [][NextThumb]_vars

\* generation from local sources, and deletion of what it produced
NextDelete ==
  \/ GenerateFromFile
  \/ GenerateFromBuffer
  \/ ResizeSettles
  \/ DeleteThumbnail

SpecDelete == InitThumb /\ [][NextDelete]_vars

\* the module is loaded: the singleton is constructed, with the directory
\* there already or not, and calls arrive while mkdir is pending or after
InitStartup ==
  /\ thumbnailUrl = FALSE
  /\ loadFullImageImmediately = FALSE
  /\ LazyMounted
  /\ GridMounted(0)
  /\ ModalUnmounted
  /\ \E existed \in BOOLEAN : ThumbnailService(existed)
  /\ NoCalls
  /\ StorageStarted

NextStartup ==
  \/ MkdirSettles
  \/ GenerateFromBuffer
  \/ GenerateFromUrl
  \/ FetchSettles
  \/ WriteSettles
  \/ ResizeSettles
  \/ CleanupSettles

SpecStartup == InitStartup /\ [][NextStartup]_vars

\* thumbnails generated from uploads, and the records that name them
NextMedia ==
  \/ GenerateFromBuffer
  \/ ResizeSettles
  \/ PostMedia
  \/ DeleteMedia

SpecMedia == InitThumb /\ [][NextMedia]_vars

\* ================================================================ claims

ThumbnailVisible == thumbEl = "loaded"
FullVisible == fullEl = "loaded"
SkeletonVisible == mounted /\ showSkeleton(State)
NoRequestIssued == net = [thumb |-> 0, full |-> 0, direct |-> 0, probe |-> 0]

\* C1: with a thumbnail URL the full image is rendered (imageLoaded = TRUE) only
\* after the instance has been thumbnail-ready (thumbnailLoaded = TRUE).
C1_FullOnlyAfterThumbnail == showFullImage(State) => thumbnailLoaded

\* C2: with a thumbnail URL and no failed load, every frame of a mounted
\* instance shows content (skeleton, thumbnail or full image); the skeleton
\* stays until the thumbnail has arrived and the thumbnail stays until the
\* full image has arrived.
C2_SkeletonThumbnailFull ==
  (mounted /\ thumbnailUrl /\ ~imageError) =>
     /\ SkeletonVisible \/ ThumbnailVisible \/ FullVisible
     /\ ~SkeletonVisible => thumbnailLoaded
     /\ (thumbnailLoaded /\ ~ThumbnailVisible) => FullVisible

\* C3: after unmount no pending callback changes the instance's state or
\* invokes the caller's onLoad / onError.
C3_NoCallbackAfterUnmount ==
  [][~mounted => UNCHANGED <<lazyState, onLoadCalls, onErrorCalls>>]_vars

\* C4: once imageError is TRUE it stays TRUE, no later event changes the stage
\* of the instance and no further fetch of either tier is started.
C4_FailedIsTerminal ==
  [][imageError => /\ imageError'
                   /\ UNCHANGED <<imageLoaded, imageInView, thumbnailLoaded, shouldLoadFullImage>>
                   /\ net' = net]_vars

\* C5: whenever imageError is TRUE the "Failed to load image" placeholder is
\* rendered and no thumbnail, full or direct <img> is rendered with it.
C5_FailedReplacesContent ==
  (mounted /\ imageError) =>
     /\ showErrorPlaceholder(State)
     /\ thumbEl = "none" /\ fullEl = "none" /\ directEl = "none"

\* C6: imageInView becomes TRUE only at an intersecting callback, the observer
\* is detached from then on, and imageInView is never set back to FALSE.
C6_ViewportOneShot ==
  [][/\ imageInView => imageInView'
     /\ imageInView' => ~observing'
     /\ (~imageInView /\ imageInView') => (observing /\ lastEvent' = "intersect")]_vars

C6_Witness == imageInView /\ ~observing /\ mounted /\ lastEvent \notin {"intersect", "mount"}

\* C7: while imageInView is FALSE no request for the thumbnail or the full
\* image has been issued and nothing but the skeleton is rendered.
C7_NoRequestBeforeViewport ==
  ~imageInView =>
     /\ NoRequestIssued /\ probes = 0 /\ timers = <<>>
     /\ thumbEl = "none" /\ fullEl = "none" /\ directEl = "none"
     /\ ~showErrorPlaceholder(State)
     /\ mounted => SkeletonVisible

C7_Witness == ~imageInView /\ mounted /\ lastEvent = "intersect" /\ SkeletonVisible

\* C8: with a thumbnail URL the probe fetch of the full image is started only
\* by a pointer-enter (in the same step) or, in immediate mode, by the expiry
\* of the 1.5 s timer set when the thumbnail loaded; with immediate mode off
\* and no pointer-enter the full image is never fetched.
C8_FullFetchTriggers ==
  /\ []((thumbnailUrl /\ ~loadFullImageImmediately /\ ~hovered) =>
          (net.probe = 0 /\ net.full = 0 /\ ~imageLoaded /\ ~shouldLoadFullImage))
  /\ [][thumbnailUrl =>
         /\ net'.probe > net.probe =>
              \/ lastEvent' = "pointerEnter"
              \/ /\ lastEvent' = "timer"
                 /\ loadFullImageImmediately /\ thumbnailLoaded
                 /\ sinceThumb = ImmediateDelay
         /\ (lastEvent' = "pointerEnter" /\ ~shouldLoadFullImage) => net'.probe = net.probe + 1
         /\ Len(timers') > Len(timers) =>
              (lastEvent' = "thumbnailLoad" /\ loadFullImageImmediately)]_vars

C8_Witness ==
  /\ thumbnailUrl /\ loadFullImageImmediately /\ ~hovered
  /\ lastEvent = "timer" /\ net.probe = 1 /\ probes = 1

\* C9: after the items prop changed identity, visibleItems is one page until
\* loadMore is invoked on the new list.
C9_ResetHoldsUntilLoadMore ==
  (items.ver > 0 /\ ~acceptedSinceChange) => visibleItems = ITEMS_PER_PAGE

\* C10: for an unchanged list of N items, after k completed loadMore calls the
\* grid renders min(12 * (k + 1), N) cells, and load-more is offered exactly
\* when fewer than N cells are rendered.
C10_PagesOfUnchangedList ==
  items.ver = 0 =>
     /\ Len(displayedItems) = Min(ITEMS_PER_PAGE * (completedLoads + 1), Len(items.list))
     /\ hasMore <=> Len(displayedItems) < Len(items.list)

C10_Witness ==
  /\ items.ver = 0 /\ Len(items.list) = 30
  /\ completedLoads = 2 /\ Len(displayedItems) = 30 /\ ~hasMore

\* C11: while the viewer is open, 0.2 * baseZoom <= zoom <= 5 * baseZoom after
\* any sequence of zoom-in / zoom-out requests from the buttons and the keys.
C11_ZoomWithinClamps ==
  Interactive =>
     /\ RLeq(RMul(baseZoom, MinZoomFactor), zoom)
     /\ RLeq(zoom, RMul(baseZoom, MaxZoomFactor))

\* C12: between the reset and load events of a viewing, the pan offset changes
\* only while dragging is set and zoom > baseZoom, and then to the offset at
\* mouse-down plus the pointer displacement since mouse-down, unclamped; with
\* zoom not greater than baseZoom no mouse-down or mouse-move changes it.
C12_PanOnlyWhileDragging ==
  [][(Interactive /\ Interactive' /\ modalImg' = modalImg /\ position' # position) =>
       /\ dragging /\ RLess(baseZoom, zoom)
       /\ \E e \in Points :
            position' = <<dragStart.posX + (e[1] - dragStart.x),
                          dragStart.posY + (e[2] - dragStart.y)>>]_vars

C12_Witness == Interactive /\ dragging /\ RLess(baseZoom, zoom) /\ position # <<0, 0>>

\* C13: the reset effect of every opening leaves zoom equal to the baseline,
\* the pan offset at (0,0), the full image marked not loaded, and the full
\* image shown exactly when there is no thumbnail URL, whatever the previous
\* viewing left behind.
C13_OpenStartsCanonical ==
  [][(effectsPending /\ ~effectsPending' /\ isOpen) =>
       /\ zoom' = baseZoom' /\ baseZoom' = One
       /\ position' = <<0, 0>>
       /\ ~isFullImageLoaded'
       /\ modalShowFullImage' <=> ~modalThumbnailUrl]_vars

C13_Witness ==
  /\ Interactive /\ opens = 2 /\ wasDirty /\ modalImg = "fetching"
  /\ Canonical /\ (modalShowFullImage <=> ~modalThumbnailUrl)

\* C14: the load of the full image sets baseZoom and zoom to
\* min(containerWidth / imageWidth, containerHeight / imageHeight, 1), which
\* is at most 1, resets the pan offset, and the displayed percentage is 100.
C14_LoadEstablishesFit ==
  [][(modalImg = "fetching" /\ modalImg' = "loaded") =>
       LET sx == Rat(geometry.cw, geometry.iw)
           sy == Rat(geometry.ch, geometry.ih)
       IN /\ zoom' = baseZoom'
          /\ baseZoom' \in {sx, sy, One}
          /\ RLeq(baseZoom', sx) /\ RLeq(baseZoom', sy) /\ RLeq(baseZoom', One)
          /\ position' = <<0, 0>>
          /\ zoomPercent' = 100]_vars

C14_Witness ==
  /\ modalImg = "loaded" /\ wasDirty /\ isFullImageLoaded
  /\ zoom = baseZoom /\ RLess(baseZoom, One) /\ position = <<0, 0>> /\ zoomPercent = 100

\* C15: a keydown delivered while the viewer is closed changes neither zoom
\* nor calls onClose.
C15_KeysOnlyWhileOpen ==
  [][(lastKey' # "none" /\ ~isOpen) => (zoom' = zoom /\ onCloseCalls' = onCloseCalls)]_vars

C15_Witness == modalMounted /\ ~isOpen /\ keyListener.on /\ lastKey = "closed"

\* ---------------------------------------------------------------- ThumbnailService claims

Pending == { i \in 1..Len(tasks) : tasks[i].status = "pending" }
NamesOf(i) == {tasks[i].temp, tasks[i].out} \ {NoName}

\* C18: the temp file names and output file names of the generation calls
\* that are running at the same time are pairwise distinct, and no generation
\* call has overwritten or removed a file that another call wrote.
C18_NamesPairwiseDistinct ==
  /\ \A i \in Pending : tasks[i].temp # NoName => tasks[i].temp # tasks[i].out
  /\ \A i, j \in Pending : i # j => NamesOf(i) \cap NamesOf(j) = {}
  /\ ~interfered

\* the three tiers of one generateMultipleThumbnails call on a URL, each with
\* its temp file written and its output name chosen, none settled
C18_Witness ==
  \E m \in 1..Len(multis) :
    /\ multis[m].pipeline = "url"
    /\ \A k \in 1..3 :
         LET t == tasks[multis[m].tiers[k]] IN
         /\ t.pc = "resize"
         /\ t.temp \in DOMAIN files /\ files[t.temp].owner = multis[m].tiers[k]
         /\ t.out # NoName
    /\ Cardinality(UNION { NamesOf(multis[m].tiers[k]) : k \in 1..3 }) = 6

\* C19: the file written by a resolved generateThumbnailFromFile or
\* generateThumbnailFromBuffer call is encoded in the format its options name
\* (JPEG when they name none) at the quality they name (60 when they name
\* none), and the extension of its name is that format.
C19_RequestedEncoding ==
  \A i \in 1..Len(tasks) :
    LET t == tasks[i]
        format == IF t.options.format = "none" THEN "jpeg" ELSE t.options.format
        quality == IF t.options.quality = 0 THEN 60 ELSE t.options.quality
    IN (t.kind \in {"file", "buffer"} /\ t.status = "resolved" /\ t.out \in DOMAIN files) =>
         /\ files[t.out].encoding = format
         /\ files[t.out].quality = quality
         /\ t.out.ext = format

\* C20: the three tier calls of a generateMultipleThumbnails call exist from
\* the moment it is called, all in the pipeline of its source; the call has
\* resolved exactly when all three tier calls have resolved, and then with a
\* map of small, medium and large holding their results; it has rejected,
\* with no map, exactly when some tier call has rejected, whatever the state
\* of the other tier calls.
C20_JoinsThreeTiers ==
  \A m \in 1..Len(multis) :
    LET call == multis[m]
        tier(k) == tasks[call.tiers[k]]
    IN /\ \A k \in 1..3 : /\ call.tiers[k] \in 1..Len(tasks)
                          /\ tier(k).parent = m /\ tier(k).tier = k
                          /\ tier(k).kind = call.pipeline
       /\ Cardinality({ call.tiers[k] : k \in 1..3 }) = 3
       /\ call.status = "resolved" <=> \A k \in 1..3 : tier(k).status = "resolved"
       /\ call.status = "rejected" <=> \E k \in 1..3 : tier(k).status = "rejected"
       /\ IF call.status = "resolved"
          THEN /\ DOMAIN call.results = {"small", "medium", "large"}
               /\ \A k \in 1..3 : /\ call.results[TierNames[k]] = tier(k).result
                                  /\ tier(k).result # NoResult
                                  /\ basename(tier(k).result.thumbnailUrl) \in DOMAIN files
          ELSE DOMAIN call.results = {}

\* a call that has rejected while one tier call had resolved and another was
\* still running
C20_Witness ==
  \E m \in 1..Len(multis) :
    /\ multis[m].status = "rejected"
    /\ \E k \in 1..3 : tasks[multis[m].tiers[k]].status = "pending"
    /\ \E k \in 1..3 : tasks[multis[m].tiers[k]].status = "resolved"

\* ---------------------------------------------------------------- media record claims

\* C21: no thumbnail file named by a media record that was deleted through
\* DELETE /api/media/:id is in the thumbnail directory.
C21_DeletedRecordLeavesNoVariant ==
  \A d \in deletedItems :
    d.thumbnailUrl # NoUrl => basename(d.thumbnailUrl) \notin DOMAIN files

\* ---------------------------------------------------------------- further VirtualizedGrid claims

\* C23: a loadMore invoked while loading is true, or while visibleItems has
\* reached the length of the list, changes nothing; an accepted one sets
\* loading and starts the 100 ms delay without touching visibleItems; a delay
\* is pending exactly while loading is true, so there is never a second one;
\* when the delay has elapsed visibleItems grows by exactly 12 and loading is
\* cleared, and nothing else adds to visibleItems; loading, once true,
\* eventually becomes false.
C23_OneLoadMoreInFlight ==
  /\ [][/\ (gridEvent' = "loadMore" /\ (loading \/ visibleItems >= Len(items.list))) =>
            UNCHANGED <<items, visibleItems, loading, loadDelay, completedLoads>>
        /\ (gridEvent' = "loadMore" /\ ~loading /\ visibleItems < Len(items.list)) =>
            /\ loading' /\ loadDelay' = 100
            /\ UNCHANGED <<items, visibleItems, completedLoads>>
        /\ (loading <=> loadDelay >= 0)
        /\ (loading /\ ~loading') =>
            /\ loadDelay = 0
            /\ visibleItems' = visibleItems + 12
            /\ completedLoads' = completedLoads + 1
        /\ visibleItems' > visibleItems => (loading /\ ~loading')]_vars
  /\ (loading ~> ~loading)

\* a loadMore was accepted, its delay elapsed and the page was added
C23_Witness ==
  gridEvent = "resume" /\ completedLoads = 1 /\ visibleItems = 24 /\ ~loading

\* C28: visibleItems is a positive multiple of 12; the rendered cells are the
\* first min(visibleItems, N) items of the current list, in list order; and
\* when load-more is offered the remaining count N - visibleItems is at
\* least 1.
C28_GridShape ==
  LET N == Len(items.list) IN
  /\ visibleItems > 0 /\ visibleItems % 12 = 0
  /\ Len(displayedItems) = Min(visibleItems, N)
  /\ \A i \in 1..Len(displayedItems) : displayedItems[i] = items.list[i]
  /\ hasMore => N - visibleItems >= 1

\* on a list that replaced the first one, a second page has been added and
\* load-more is still offered
C28_Witness ==
  /\ items.ver = 1 /\ Len(items.list) = 30
  /\ visibleItems = 24 /\ Len(displayedItems) = 24 /\ hasMore /\ ~loading

\* ---------------------------------------------------------------- further ImageZoomModal claims

C27_AtMostOneProbe ==
  [][/\ net'.probe <= 1
     /\ (lastEvent' = "pointerEnter" /\ shouldLoadFullImage) =>
          UNCHANGED <<lazyState, thumbEl, fullEl, directEl, probes, net, timers,
                      onLoadCalls, onErrorCalls>>]_vars

\* the immediate-mode timer has promoted the instance and started the probe,
\* and a pointer-enter arrived afterwards
C27_Witness ==
  /\ lastEvent = "pointerEnter" /\ loadFullImageImmediately
  /\ timers = <<>> /\ sinceThumb >= ImmediateDelay
  /\ shouldLoadFullImage /\ net.probe = 1 /\ probes = 1

\* C29: a step that handles a zoom-in or zoom-out request (button or key)
\* leaves baseZoom, position, dragging, dragStart, isFullImageLoaded and
\* showFullImage as they were; a step of the open viewer that changes
\* dragging, dragStart or position without a load of the image (mouse-down,
\* mouse-move, mouse-up) leaves zoom and baseZoom as they were.
C29_ZoomAndPanFrames ==
  [][/\ zoomOps' # zoomOps =>
          UNCHANGED <<baseZoom, position, dragging, dragStart, isFullImageLoaded, modalShowFullImage>>
     /\ (/\ Interactive /\ Interactive' /\ modalImg' = modalImg
         /\ <<dragging, dragStart, position>>' # <<dragging, dragStart, position>>) =>
          UNCHANGED <<zoom, baseZoom>>]_vars

\* zoom requests were handled on a loaded image around a drag that has moved
\* the pan offset and is still going on
C29_Witness ==
  /\ Interactive /\ modalImg = "loaded" /\ isFullImageLoaded
  /\ zoomOps >= 2 /\ drags = 1 /\ dragging /\ position # <<0, 0>>
  /\ zoom # RMul(baseZoom, ZoomStep)

\* C30: in every state isFullImageLoaded implies showFullImage; and while the
\* viewer is rendered with a thumbnail URL, exactly one of the thumbnail
\* placeholder and the visible full image is displayed.
C30_LoadedImpliesShown ==
  /\ isFullImageLoaded => modalShowFullImage
  /\ (modalMounted /\ isOpen /\ modalThumbnailUrl) =>
        (showThumbnailPlaceholder # fullImageVisible)

\* the full image of a viewer opened with a thumbnail has loaded and replaced
\* the placeholder
C30_Witness ==
  /\ Interactive /\ modalThumbnailUrl /\ modalImg = "loaded"
  /\ isFullImageLoaded /\ modalShowFullImage
  /\ fullImageVisible /\ ~showThumbnailPlaceholder

\* ---------------------------------------------------------------- dispatch claims

\* what the argument of generateMultipleThumbnails is: image bytes, the URL of
\* an image (with a scheme, or relative to the server root), or the path of a
\* local file
SourceKind(source) ==
  IF source.type = "buffer" THEN "buffer"
  ELSE IF \/ StartsWith(source.text, <<"h", "t", "t", "p", ":", "/", "/">>)
          \/ StartsWith(source.text, <<"/">>)
       THEN "url" ELSE "file"

\* C25: every generateMultipleThumbnails call runs its three tiers through the
\* pipeline of what its source is: the buffer pipeline for a buffer, the URL
\* pipeline for a URL, the file pipeline for a local file path; a local file
\* path is never sent to the URL pipeline.
C25_DispatchBySourceKind ==
  \A m \in 1..Len(multis) :
    /\ multis[m].pipeline = SourceKind(multis[m].source)
    /\ \A k \in 1..3 : tasks[multis[m].tiers[k]].kind = multis[m].pipeline

\* ---------------------------------------------------------------- startup claims

\* C26: once mkdir has been fulfilled the directory exists; a rejected mkdir
\* has been thrown to the process, not only caught and logged; and files are
\* in the directory only when it exists.
C26_DirectoryCreatedOrFailureSurfaced ==
  /\ startup.mkdir = "fulfilled" => dirExists
  /\ startup.mkdir = "rejected" => startup.thrown
  /\ DOMAIN files # {} => dirExists

\* ---------------------------------------------------------------- failure claims

\* call i leaves the await it is suspended at through a failure: fetch did not
\* answer 2xx, the temp file was not written, or the resize did not produce
\* the output
FailsAt(i) ==
  \/ tasks[i].pc = "fetch" /\ tasks'[i].pc \notin {"fetch", "write"}
  \/ tasks[i].pc = "write" /\ tasks'[i].pc \notin {"write", "resize"}
  \/ tasks[i].pc = "resize" /\ tasks'[i].pc # "resize" /\ tasks[i].out \notin DOMAIN files'

\* C22: a single-variant generation call that has resolved carries a
\* ThumbnailResult for an output file it wrote completely, and a rejected one
\* carries no result and one of the two error messages; a failure at any
\* await sends the call to its rejection (through the cleanup of the URL
\* pipeline), and a settled call never changes again.
C22_FailureRejects ==
  /\ [](\A i \in 1..Len(tasks) :
         LET t == tasks[i] IN
         /\ t.status = "resolved" =>
               /\ t.result = ThumbnailResult(t.out) /\ t.error = NoError
               /\ t.out \in DOMAIN files
               /\ files[t.out].owner = i /\ files[t.out].complete
         /\ t.status = "rejected" =>
               /\ t.result = NoResult
               /\ t.error = ErrorOf(t.kind)
         /\ t.pc = "cleanupErr" => t.status = "pending")
  /\ [][\A i \in 1..Len(tasks) :
         /\ FailsAt(i) => (tasks'[i].pc = "cleanupErr" \/ tasks'[i].status = "rejected")
         /\ (tasks[i].pc = "cleanupErr" /\ tasks'[i] # tasks[i]) => tasks'[i].status = "rejected"
         /\ tasks[i].status # "pending" => tasks'[i] = tasks[i]]_vars

\* one URL call was rejected after its temp file was written and the resize
\* failed, one buffer call was rejected, one call resolved
C22_Witness ==
  \E i, j, k \in 1..Len(tasks) :
    /\ tasks[i].kind = "url" /\ tasks[i].status = "rejected" /\ tasks[i].out # NoName
    /\ tasks[j].kind = "buffer" /\ tasks[j].status = "rejected"
    /\ tasks[k].status = "resolved" /\ tasks[k].out \in DOMAIN files
====
